---- MODULE Spec2Model ----
(***************************************************************************)
(* Model of the task store (zustand), the WebSocketService event handlers  *)
(* that write into it, the TaskActions start/pause toggle and the queue    *)
(* commands of the subtitle application's front end; of the sockets and    *)
(* subscriptions of the WebSocketService bus; of the SRT export; and of    *)
(* the backend's scheduler and stage retry policy.                         *)
(***************************************************************************)
EXTENDS Integers, Sequences, FiniteSets, TLC

VARIABLES
    tasks,      \* useStore.tasks: the array of VideoTask records
    now,        \* the value Date.now() returns
    socket,     \* WebSocketService.socket: "null", "connecting" or "connected"
    listeners,  \* WebSocketService.listeners: event name -> callbacks, in insertion order
    emitted,    \* the callback invocations made by the most recent operation
    sent,       \* the messages the most recent operation handed to socket.emit
    warnings,   \* what the most recent operation wrote with console.warn
    received,   \* number of server events handled so far
    orphans,    \* sockets connect() replaced without closing them: [state, inbox] records
    inbox,      \* events the server sent to this.socket that its handlers have not run yet
    history,    \* what the server published, the store applied and each callback was given
    srt,        \* an export: the SRT text the subtitles were parsed from (if any), the
                \* subtitles, the mode and what generateSrtContent returned
    registry,   \* backend TaskRegistry: [id, status] records in submission order
    queue,      \* backend Scheduler: ids of the pending tasks, first in first out
    executor,   \* backend StageExecutor: the stage's calls, retries, waits and results
    selectedTaskId, \* store: the id of the selected task, or NoSelection (null)
    mounted,    \* App: whether its effect has subscribed, and the tasks its listener closed over
    platform,       \* Electron main process: process.platform
    app,            \* Electron app lifecycle: starting, ready, quitting, exiting, exited
    mainWindow,     \* the BrowserWindow: none, shown, minimized or maximized
    pythonProcess,  \* the module variable: "null" or "child"
    isQuitting,     \* the module variable
    child,          \* the spawned backend: [state, killed, signals]
    timers          \* pending setTimeout callbacks of killPythonProcess

busVars == <<orphans, inbox, history>>
backendVars == <<registry, queue, executor>>
electronVars == <<platform, app, mainWindow, pythonProcess, isQuitting, child, timers>>
shellVars == <<selectedTaskId, mounted, electronVars>>
vars == <<tasks, now, socket, listeners, emitted, sent, warnings, received, busVars, srt, backendVars,
          shellVars>>

----------------------------------------------------------------------------
\* Bounds of the model.
MaxTasks == 2
MaxEvents == 2
MaxClock == 1
MaxSubmitted == 6
MaxOrphans == 1
MaxPublished == 2
MaxSegments == 3
MaxCues == 2

\* StageExecutor retry policy: the number of retries and the first wait, in seconds.
maxRetries == 2
initialBackoff == 1

\* defaultConfig.maxConcurrentTasks
maxConcurrentTasks == 3

TaskIds == 1..MaxTasks

\* An optional field that is not set (undefined).
NoError == "undefined"
NoTime == -1
Undef == -1

\* The event names of the internal bus (the first argument of emit).
EventNames ==
    {"connection", "progress", "translation_progress", "translation_completed",
     "subtitle_added", "completed", "failed", "synthesis_progress",
     "synthesis_completed", "synthesis_failed", "cancelled", "allCompleted"}

Terminal == {"completed", "failed", "cancelled"}
TaskStatus == {"pending", "processing", "paused", "completed", "failed", "cancelled"}

\* Failure messages the server may send.
Errors == {"e1", "e2"}

----------------------------------------------------------------------------
\* Sequence helpers.
Range(s) == {s[i] : i \in 1..Len(s)}

IndexOf(id) == CHOOSE i \in 1..Len(tasks) : tasks[i].id = id

InStore(id) == \E i \in 1..Len(tasks) : tasks[i].id = id

\* getTaskById: the first task with this id.
getTaskById(id) == tasks[IndexOf(id)]

\* A task as the backend creates it and the uploader hands it to addTask.
NewTask(id) ==
    [id |-> id, filePath |-> <<"path", id>>, fileName |-> <<"name", id>>, fileSize |-> 100 + id,
     status |-> "pending", progress |-> 0, stage |-> "idle", stageDetail |-> <<"">>,
     error |-> NoError, subtitles |-> <<>>,
     createdAt |-> now, updatedAt |-> now, completedAt |-> NoTime]

\* { ...task, ...updates, updatedAt: Date.now() }
Merge(task, updates) ==
    [f \in DOMAIN task |->
        IF f = "updatedAt" THEN now
        ELSE IF f \in DOMAIN updates THEN updates[f] ELSE task[f]]

\* updateTask that merges the updates into every task of the array.
updateTaskAll(id, updates) ==
    [i \in 1..Len(tasks) |-> Merge(tasks[i], updates)]

\* updateTask(id, updates): maps over the array, replacing the matching task.
updateTask(id, updates) ==
    [i \in 1..Len(tasks) |-> IF tasks[i].id = id THEN Merge(tasks[i], updates) ELSE tasks[i]]

\* Callbacks whose body throws.
ThrowingCallbacks == {"cbThrows"}

\* One call of a callback by emit; error says that it threw.
Invocation(cb, event, data) ==
    [cb |-> cb, event |-> event, data |-> data, error |-> cb \in ThrowingCallbacks]

\* An emit without the try/catch: the first exception ends the forEach.
emitUncaught(event, data) ==
    LET callbacks == listeners[event]
        threw == {i \in 1..Len(callbacks) : callbacks[i] \in ThrowingCallbacks}
        last == IF threw = {} THEN Len(callbacks)
                ELSE CHOOSE i \in threw : \A j \in threw : i <= j
    IN [i \in 1..last |-> Invocation(callbacks[i], event, data)]

\* emit(event, data): one invocation per registered callback, in insertion order.
\* An exception a callback throws is caught and logged, and the forEach goes on.
emit(event, data) ==
    [i \in 1..Len(listeners[event]) |-> Invocation(listeners[event][i], event, data)]

\* The App's 'connection' listener, status 'connected': one join_task message for
\* each processing task of the tasks array the listener closed over.
joinTasks(ts) ==
    LET processing == SelectSeq(ts, LAMBDA t : t.status = "processing")
    IN [i \in 1..Len(processing) |->
            [event |-> "join_task", data |-> [taskId |-> processing[i].id]]]

----------------------------------------------------------------------------
\* Subtitle entries.  Times are in milliseconds.
Entry(id, st, txt) ==
    [id |-> id, startTime |-> st, endTime |-> st + 5, text |-> txt, confidence |-> Undef]

\* Payloads of subtitle_added as the server may send them: with startTime/endTime,
\* with start/end, a repeated id, and one that carries no times.
RawSubtitles ==
    { [id |-> 1, startTime |-> 20, endTime |-> 25, text |-> "a"],
      [id |-> 2, start |-> 10, end |-> 15, text |-> "b"],
      [id |-> 1, startTime |-> 10, endTime |-> 15, text |-> "c"],
      [id |-> 3, text |-> "d"] }

\* Subtitle lists a task_completed event may carry.
CompletedSubtitles ==
    { <<>>,
      <<Entry(2, 10, "b"), Entry(1, 20, "a")>>,
      <<Entry(1, 20, "a"), Entry(2, 10, "b")>>,
      <<Entry(1, 10, "a"), Entry(1, 20, "a")>> }

Field(raw, f, alt) ==
    IF f \in DOMAIN raw THEN raw[f] ELSE IF alt \in DOMAIN raw THEN raw[alt] ELSE Undef

\* The `normalized` object of handleSubtitleAdded.
Normalize(raw) ==
    [id |-> raw.id,
     startTime |-> Field(raw, "startTime", "start"),
     endTime |-> Field(raw, "endTime", "end"),
     text |-> IF "text" \in DOMAIN raw THEN raw.text ELSE "",
     confidence |-> IF "confidence" \in DOMAIN raw THEN raw.confidence ELSE Undef]

\* Array.prototype.sort((a, b) => a.startTime - b.startTime): a stable sort.
RECURSIVE InsertByStart(_, _)
InsertByStart(x, s) ==
    IF s = <<>> \/ s[Len(s)].startTime <= x.startTime
    THEN Append(s, x)
    ELSE Append(InsertByStart(x, SubSeq(s, 1, Len(s) - 1)), s[Len(s)])

RECURSIVE SortByStart(_)
SortByStart(s) ==
    IF s = <<>> THEN <<>>
    ELSE InsertByStart(s[Len(s)], SortByStart(SubSeq(s, 1, Len(s) - 1)))

\* handleSubtitleAdded that appends the arrival to the end of the list.
handleSubtitleAddedAppending(taskId, raw) ==
    IF ~InStore(taskId) THEN tasks
    ELSE LET currentSubtitles == getTaskById(taskId).subtitles
             normalized == Normalize(raw)
         IN IF normalized.startTime = Undef \/ normalized.endTime = Undef THEN tasks
            ELSE updateTask(taskId, [subtitles |-> Append(currentSubtitles, normalized)])

\* handleSubtitleAdded: the task list after the event.
handleSubtitleAdded(taskId, raw) ==
    IF ~InStore(taskId) THEN tasks
    ELSE LET currentSubtitles == getTaskById(taskId).subtitles
             normalized == Normalize(raw)
         IN IF normalized.startTime = Undef \/ normalized.endTime = Undef THEN tasks
            ELSE IF \E i \in 1..Len(currentSubtitles) : currentSubtitles[i].id = normalized.id
                 THEN tasks
                 ELSE updateTask(taskId,
                        [subtitles |-> SortByStart(Append(currentSubtitles, normalized))])

\* handleProgressUpdate: the task list after the event.
handleProgressUpdate(update) ==
    updateTask(update.taskId,
        [progress |-> update.progress, stage |-> update.stage,
         stageDetail |-> <<"detail", update.detail>>])

----------------------------------------------------------------------------
\* Callbacks that subscribe to the 'progress' event of the bus.
BusCallbacks == {"cb1", "cb2"}

\* No export has been asked for.
NoExport ==
    [source |-> "", subtitles |-> <<>>, mode |-> "original", exported |-> FALSE, content |-> ""]

\* The StageExecutor before its stage starts.
ExecutorIdle ==
    executor = [phase |-> "idle", segment |-> 0, retries |-> 0, backoffs |-> <<>>,
                lastError |-> "none", results |-> <<>>]

\* The App component is not mounted.
NotMounted == [listening |-> FALSE, tasks |-> <<>>]

\* No backend process has been spawned.
NoChild == [state |-> "none", killed |-> FALSE, signals |-> <<>>]

\* The Electron main process before app.whenReady() resolves.
ElectronIdle ==
    /\ app = "starting"
    /\ mainWindow = "none"
    /\ pythonProcess = "null"
    /\ isQuitting = FALSE
    /\ child = NoChild
    /\ timers = 0

\* selectedTaskId: null
NoSelection == 0

ShellIdle ==
    /\ selectedTaskId = NoSelection
    /\ mounted = NotMounted
    /\ platform = "win32"
    /\ ElectronIdle

\* No socket has been replaced, nothing is in flight, nothing has been published.
BusIdle ==
    /\ orphans = <<>>
    /\ inbox = <<>>
    /\ history = [published |-> <<>>, applied |-> <<>>,
                  delivered |-> [cb \in BusCallbacks |-> <<>>]]

Init ==
    /\ tasks = <<>>
    /\ now = 0
    /\ socket = "null"
    /\ listeners = [e \in EventNames |-> <<>>]
    /\ emitted = <<>>
    /\ sent = <<>>
    /\ warnings = <<>>
    /\ received = 0
    /\ BusIdle
    /\ srt = NoExport
    /\ registry = <<>>
    /\ ExecutorIdle
    /\ ShellIdle
    /\ queue = <<>>

\* Date.now() advances.
Tick ==
    /\ now < MaxClock
    /\ now' = now + 1
    /\ UNCHANGED <<tasks, socket, listeners, emitted, sent, warnings, received, busVars, srt, backendVars, shellVars>>

\* addTask(task): a newly created task is appended.  Ids are unique; the next
\* unused one is taken.
addTask(id) ==
    /\ Len(tasks) < MaxTasks
    /\ ~InStore(id)
    /\ \A j \in 1..(id - 1) : InStore(j)
    /\ tasks' = Append(tasks, NewTask(id))
    /\ emitted' = <<>>
    /\ sent' = <<>>
    /\ warnings' = <<>>
    /\ UNCHANGED <<now, socket, listeners, received, busVars, srt, backendVars, shellVars>>

\* TaskActions.handleToggleStatus for the task the component renders.  TaskQueue
\* renders TaskActions only for tasks that are not completed.
handleToggleStatus(id) ==
    /\ InStore(id)
    /\ getTaskById(id).status # "completed"
    /\ LET task == getTaskById(id)
       IN tasks' = IF task.status = "processing"
                   THEN updateTask(id, [status |-> "pending"])
                   ELSE IF task.status = "pending" \/ task.status = "error"
                        THEN updateTask(id, [status |-> "processing"])
                        ELSE tasks
    /\ emitted' = <<>>
    /\ sent' = <<>>
    /\ warnings' = <<>>
    /\ UNCHANGED <<now, socket, listeners, received, busVars, srt, backendVars, shellVars>>

----------------------------------------------------------------------------
\* WebSocketService: connection.

\* connect() while this.socket is null: opens a socket.  (When this.socket is
\* connected, connect() returns at once.)
connect ==
    /\ socket = "null"
    /\ socket' = "connecting"
    /\ emitted' = <<>>
    /\ sent' = <<>>
    /\ warnings' = <<>>
    /\ UNCHANGED <<tasks, now, listeners, received, busVars, srt, backendVars, shellVars>>

\* connect() while this.socket is a socket that is not connected yet (or is
\* reconnecting): a new socket is opened and assigned to this.socket.  The one
\* that was there is not closed: it stays alive with its handlers attached.
connectAgain ==
    /\ socket = "connecting"
    /\ Len(orphans) < MaxOrphans
    /\ socket' = "connecting"
    /\ orphans' = Append(orphans, [state |-> "connecting", inbox |-> <<>>])
    /\ emitted' = <<>>
    /\ sent' = <<>>
    /\ warnings' = <<>>
    /\ UNCHANGED <<tasks, now, listeners, received, inbox, history, srt, backendVars, shellVars>>

\* disconnect(): closes the socket, whose 'disconnect' handler runs if it was connected.
disconnect ==
    /\ socket # "null"
    /\ socket' = "null"
    /\ emitted' = IF socket = "connected"
                  THEN emit("connection", [status |-> "disconnected"])
                  ELSE <<>>
    /\ inbox' = <<>>
    /\ sent' = <<>>
    /\ warnings' = <<>>
    /\ UNCHANGED <<tasks, now, listeners, received, orphans, history, srt, backendVars, shellVars>>

\* socket.on('connect'): the listeners of 'connection' run, the App's among them
\* when it has subscribed.
OnConnect ==
    /\ socket = "connecting"
    /\ socket' = "connected"
    /\ emitted' = emit("connection", [status |-> "connected"])
    /\ sent' = IF mounted.listening THEN joinTasks(mounted.tasks) ELSE <<>>
    /\ warnings' = <<>>
    /\ UNCHANGED <<tasks, now, listeners, received, busVars, srt, backendVars, shellVars>>

\* socket.on('disconnect'): the transport dropped; socket.io reconnects by itself.
OnDisconnect ==
    /\ socket = "connected"
    /\ socket' = "connecting"
    /\ emitted' = emit("connection", [status |-> "disconnected"])
    /\ inbox' = <<>>
    /\ sent' = <<>>
    /\ warnings' = <<>>
    /\ UNCHANGED <<tasks, now, listeners, received, orphans, history, srt, backendVars, shellVars>>

\* socket.on('connect') of a socket that connect() has replaced.
OnOrphanConnect(i) ==
    /\ i \in 1..Len(orphans)
    /\ orphans[i].state = "connecting"
    /\ orphans' = [orphans EXCEPT ![i].state = "connected"]
    /\ emitted' = emit("connection", [status |-> "connected"])
    /\ sent' = IF mounted.listening /\ socket = "connected"
               THEN joinTasks(mounted.tasks) ELSE <<>>
    /\ warnings' = IF mounted.listening /\ socket # "connected"
                   THEN [n \in 1..Len(joinTasks(mounted.tasks)) |-> "WebSocket not connected"]
                   ELSE <<>>
    /\ UNCHANGED <<tasks, now, socket, listeners, received, inbox, history, srt, backendVars, shellVars>>

\* on(event, callback): a Set keeps one copy of a callback, in insertion order.
on(event, callback) ==
    /\ listeners' = [listeners EXCEPT ![event] =
                        IF callback \in Range(@) THEN @ ELSE Append(@, callback)]
    /\ emitted' = <<>>
    /\ sent' = <<>>
    /\ warnings' = <<>>
    /\ UNCHANGED <<tasks, now, socket, received, busVars, srt, backendVars, shellVars>>

\* off(event, callback), and the unsubscribe function on() returns.
off(event, callback) ==
    /\ callback \in Range(listeners[event])
    /\ listeners' = [listeners EXCEPT ![event] = SelectSeq(@, LAMBDA c : c # callback)]
    /\ emitted' = <<>>
    /\ sent' = <<>>
    /\ warnings' = <<>>
    /\ UNCHANGED <<tasks, now, socket, received, busVars, srt, backendVars, shellVars>>

----------------------------------------------------------------------------
\* WebSocketService: the handlers of the server's events.  A handler runs when the
\* connected socket receives the event.
Receive(newTasks, calls) ==
    /\ socket = "connected"
    /\ received < MaxEvents
    /\ received' = received + 1
    /\ tasks' = newTasks
    /\ emitted' = calls
    /\ sent' = <<>>
    /\ warnings' = <<>>
    /\ UNCHANGED <<now, socket, listeners, busVars, srt, backendVars, shellVars>>

\* The server emits an event: it travels to every connected socket of this client.
\* history.published notes the state of this.socket at that moment.
Publish(name, data) ==
    /\ Len(history.published) < MaxPublished
    /\ LET ev == [n |-> Len(history.published) + 1, name |-> name, data |-> data]
       IN /\ inbox' = IF socket = "connected" THEN Append(inbox, ev) ELSE inbox
          /\ orphans' = [i \in 1..Len(orphans) |->
                            IF orphans[i].state = "connected"
                            THEN [orphans[i] EXCEPT !.inbox = Append(@, ev)]
                            ELSE orphans[i]]
          /\ history' = [history EXCEPT !.published = Append(@, [n |-> ev.n, socket |-> socket])]
    /\ emitted' = <<>>
    /\ sent' = <<>>
    /\ warnings' = <<>>
    /\ UNCHANGED <<tasks, now, socket, listeners, received, srt, backendVars, shellVars>>

\* The task_progress handler of some socket runs for the event ev.  history notes
\* that the store applied it and which callbacks were invoked with it.
HandleTaskProgress(ev) ==
    /\ ev.name = "task_progress"
    /\ tasks' = handleProgressUpdate(ev.data)
    /\ emitted' = emit("progress", ev.data)
    /\ history' = [history EXCEPT
                      !.applied = Append(@, ev.n),
                      !.delivered = [cb \in BusCallbacks |->
                                        IF cb \in Range(listeners["progress"])
                                        THEN Append(@[cb], ev.n) ELSE @[cb]]]
    /\ sent' = <<>>
    /\ warnings' = <<>>
    /\ UNCHANGED <<now, socket, listeners, received, srt, backendVars, shellVars>>

\* socket.on('task_progress') of this.socket, for the next event in flight to it.
DeliverTaskProgress ==
    /\ socket = "connected"
    /\ inbox # <<>>
    /\ HandleTaskProgress(Head(inbox))
    /\ inbox' = Tail(inbox)
    /\ UNCHANGED orphans

\* socket.on('task_progress') of a replaced socket, for the next event in flight to it.
OrphanDeliverTaskProgress(i) ==
    /\ i \in 1..Len(orphans)
    /\ orphans[i].state = "connected"
    /\ orphans[i].inbox # <<>>
    /\ HandleTaskProgress(Head(orphans[i].inbox))
    /\ orphans' = [orphans EXCEPT ![i].inbox = Tail(@)]
    /\ UNCHANGED inbox

\* socket.on('task_progress')
OnTaskProgress(update) ==
    /\ Receive(handleProgressUpdate(update), emit("progress", update))

\* socket.on('subtitle_added')
OnSubtitleAdded(taskId, raw) ==
    /\ Receive(handleSubtitleAdded(taskId, raw),
            emit("subtitle_added", [taskId |-> taskId, subtitle |-> raw]))

\* A task_completed handler that merges the server's whole task record, file name
\* included, into the stored task.
OnTaskCompletedReplacing(taskId, subtitles) ==
    /\ Receive(updateTask(taskId,
                [fileName |-> <<"name", 0>>,
                 status |-> "completed", progress |-> 100, stage |-> "completed",
                 stageDetail |-> <<"done">>, subtitles |-> subtitles, completedAt |-> now]),
            emit("completed", [id |-> taskId, subtitles |-> subtitles]))

\* socket.on('task_completed')
OnTaskCompleted(taskId, subtitles) ==
    /\ Receive(updateTask(taskId,
                [status |-> "completed", progress |-> 100, stage |-> "completed",
                 stageDetail |-> <<"done">>, subtitles |-> subtitles, completedAt |-> now]),
            emit("completed", [id |-> taskId, subtitles |-> subtitles]))

\* socket.on('task_failed')
OnTaskFailed(taskId, error) ==
    /\ Receive(updateTask(taskId,
                [status |-> "failed", error |-> error, stageDetail |-> <<"task_failed", error>>]),
            emit("failed", [taskId |-> taskId, error |-> error]))

\* socket.on('synthesis_progress')
OnSynthesisProgress(data) ==
    /\ Receive(updateTask(data.taskId,
                [progress |-> data.progress, stage |-> "generating_subtitle",
                 stageDetail |-> <<"detail", data.detail>>]),
            emit("synthesis_progress", data))

\* socket.on('synthesis_completed')
OnSynthesisCompleted(taskId) ==
    /\ Receive(updateTask(taskId,
                [status |-> "completed", progress |-> 100, stage |-> "completed",
                 stageDetail |-> <<"synthesis_done">>]),
            emit("synthesis_completed", [taskId |-> taskId]))

\* socket.on('synthesis_failed')
OnSynthesisFailed(taskId, error) ==
    /\ Receive(updateTask(taskId,
                [status |-> "failed", error |-> error,
                 stageDetail |-> <<"synthesis_failed", error>>]),
            emit("synthesis_failed", [taskId |-> taskId, error |-> error]))

\* A task_cancelled handler that drops the subtitles produced so far.
OnTaskCancelledDiscarding(taskId) ==
    /\ Receive(updateTask(taskId,
                [status |-> "cancelled", stageDetail |-> <<"cancelled">>, subtitles |-> <<>>]),
            emit("cancelled", taskId))

\* socket.on('task_cancelled')
OnTaskCancelled(taskId) ==
    /\ Receive(updateTask(taskId, [status |-> "cancelled", stageDetail |-> <<"cancelled">>]),
            emit("cancelled", taskId))

----------------------------------------------------------------------------
\* WebSocketService: commands to the server.

\* emitEvent(event, data): warns and returns when the socket is not connected,
\* else hands the message to socket.emit.
emitEvent(event, data) ==
    /\ sent' = IF socket # "connected" THEN <<>> ELSE <<[event |-> event, data |-> data]>>
    /\ warnings' = IF socket # "connected" THEN <<"WebSocket not connected">> ELSE <<>>
    /\ emitted' = <<>>
    /\ UNCHANGED <<tasks, now, socket, listeners, received, busVars, srt, backendVars, shellVars>>

\* startQueue(taskIds), called with the ids of the tasks in the store.
startQueue ==
    /\ emitEvent("start_queue", [task_ids |-> [i \in 1..Len(tasks) |-> tasks[i].id]])

pauseQueue ==
    /\ emitEvent("pause_queue", <<>>)

resumeQueue ==
    /\ emitEvent("resume_queue", <<>>)

cancelQueue ==
    /\ emitEvent("cancel_queue", <<>>)

\* cancelTask(taskId)
cancelTask(taskId) ==
    /\ emitEvent("cancel_task", [task_id |-> taskId])

----------------------------------------------------------------------------
\* Inputs.
Callbacks == {"cb1"}
SubscribedEvents == {"failed", "cancelled"}

ProgressUpdates ==
    [taskId : TaskIds, stage : {"transcribing"}, progress : {30, 60}, detail : {"d"}]

SynthesisUpdates == [taskId : TaskIds, progress : {50}, detail : {"d"}]

\* The store, the event handlers, the subscriptions and one connection (connect()
\* is called when there is no socket), within one tick of the clock.
Next ==
    \/ \E id \in TaskIds : addTask(id)
    \/ \E id \in TaskIds : handleToggleStatus(id)
    \/ connect
    \/ disconnect
    \/ OnConnect
    \/ OnDisconnect
    \/ \E e \in SubscribedEvents, cb \in Callbacks : on(e, cb)
    \/ \E e \in SubscribedEvents, cb \in Callbacks : off(e, cb)
    \/ \E u \in ProgressUpdates : OnTaskProgress(u)
    \/ \E id \in TaskIds, raw \in RawSubtitles : OnSubtitleAdded(id, raw)
    \/ \E id \in TaskIds, subs \in CompletedSubtitles : OnTaskCompleted(id, subs)
    \/ \E id \in TaskIds, e \in Errors : OnTaskFailed(id, e)
    \/ \E u \in SynthesisUpdates : OnSynthesisProgress(u)
    \/ \E id \in TaskIds : OnSynthesisCompleted(id)
    \/ \E id \in TaskIds, e \in Errors : OnSynthesisFailed(id, e)
    \/ \E id \in TaskIds : OnTaskCancelled(id)

Spec == Init /\ [][Next]_vars

\* The commands to the server, the connection, the subscriptions and the
\* cancellation events, as time passes.
CmdNext ==
    \/ \E id \in TaskIds : cancelTask(id)
    \/ cancelQueue
    \/ startQueue
    \/ pauseQueue
    \/ resumeQueue
    \/ \E id \in TaskIds : addTask(id)
    \/ \E id \in TaskIds : handleToggleStatus(id)
    \/ connect
    \/ disconnect
    \/ OnConnect
    \/ OnDisconnect
    \/ \E id \in TaskIds : OnTaskCancelled(id)
    \/ \E e \in SubscribedEvents, cb \in Callbacks : on(e, cb)
    \/ \E e \in SubscribedEvents, cb \in Callbacks : off(e, cb)
    \/ Tick

CmdSpec == Init /\ [][CmdNext]_vars

----------------------------------------------------------------------------
\* The task queue once more tasks than maxConcurrentTasks have been added and the
\* connection is established.
QueueIds == 1..(maxConcurrentTasks + 1)

QueueInit ==
    /\ now = 0
    /\ tasks = [i \in QueueIds |-> NewTask(i)]
    /\ socket = "connected"
    /\ listeners = [e \in EventNames |-> <<>>]
    /\ emitted = <<>>
    /\ sent = <<>>
    /\ warnings = <<>>
    /\ received = 0
    /\ BusIdle
    /\ srt = NoExport
    /\ registry = <<>>
    /\ ExecutorIdle
    /\ ShellIdle
    /\ queue = <<>>

QueueNext ==
    \/ \E id \in QueueIds : handleToggleStatus(id)
    \/ \E id \in QueueIds : OnTaskCompleted(id, <<>>)
    \/ \E id \in QueueIds, e \in Errors : OnTaskFailed(id, e)
    \/ \E id \in QueueIds : OnTaskCancelled(id)
    \/ startQueue
    \/ pauseQueue
    \/ resumeQueue
    \/ cancelQueue
    \/ Tick

QueueSpec == QueueInit /\ [][QueueNext]_vars

----------------------------------------------------------------------------
\* The backend scheduler: admission of pending tasks into at most
\* maxConcurrentTasks execution slots, first in first out.
Running(reg) == {i \in 1..Len(reg) : reg[i].status = "processing"}

SetStatus(reg, id, status) ==
    [i \in 1..Len(reg) |-> IF reg[i].id = id THEN [reg[i] EXCEPT !.status = status] ELSE reg[i]]

Submitted(id) == \E i \in 1..Len(registry) : registry[i].id = id

StatusOf(id) == registry[CHOOSE i \in 1..Len(registry) : registry[i].id = id].status

\* The scheduler admitting the task at the end of the queue.
RECURSIVE AdmitNewest(_, _)
AdmitNewest(reg, q) ==
    IF q = <<>> \/ Cardinality(Running(reg)) >= maxConcurrentTasks
    THEN [registry |-> reg, queue |-> q]
    ELSE AdmitNewest(SetStatus(reg, q[Len(q)], "processing"), SubSeq(q, 1, Len(q) - 1))

\* The scheduler admits the head of the queue while a slot is free.
RECURSIVE Admit(_, _)
Admit(reg, q) ==
    IF q = <<>> \/ Cardinality(Running(reg)) >= maxConcurrentTasks
    THEN [registry |-> reg, queue |-> q]
    ELSE Admit(SetStatus(reg, Head(q), "processing"), Tail(q))

Schedule(reg, q) ==
    /\ registry' = Admit(reg, q).registry
    /\ queue' = Admit(reg, q).queue
    /\ UNCHANGED <<tasks, now, socket, listeners, emitted, sent, warnings, received, busVars,
                   srt, executor, shellVars>>

\* A task is submitted: created pending with the next id, queued, admitted if a
\* slot is free.
Submit ==
    /\ Len(registry) < MaxSubmitted
    /\ LET id == Len(registry) + 1
       IN Schedule(Append(registry, [id |-> id, status |-> "pending"]), Append(queue, id))

\* A running task completes or fails.
Finish(id, outcome) ==
    /\ Submitted(id)
    /\ StatusOf(id) = "processing"
    /\ Schedule(SetStatus(registry, id, outcome), queue)

\* A running task is paused.
PauseTask(id) ==
    /\ Submitted(id)
    /\ StatusOf(id) = "processing"
    /\ Schedule(SetStatus(registry, id, "paused"), queue)

\* A paused task resumes when a slot is free.
ResumeTask(id) ==
    /\ Submitted(id)
    /\ StatusOf(id) = "paused"
    /\ Cardinality(Running(registry)) < maxConcurrentTasks
    /\ Schedule(SetStatus(registry, id, "processing"), queue)

\* A task that has not finished is cancelled and leaves the queue.
CancelTask(id) ==
    /\ Submitted(id)
    /\ StatusOf(id) \notin Terminal
    /\ Schedule(SetStatus(registry, id, "cancelled"), SelectSeq(queue, LAMBDA x : x # id))

SubmitIds == 1..MaxSubmitted

SchedNext ==
    \/ Submit
    \/ \E id \in SubmitIds, o \in {"completed", "failed"} : Finish(id, o)
    \/ \E id \in SubmitIds : PauseTask(id)
    \/ \E id \in SubmitIds : ResumeTask(id)
    \/ \E id \in SubmitIds : CancelTask(id)

SchedSpec == Init /\ [][SchedNext]_vars

----------------------------------------------------------------------------
\* Reading a task list by task id.
Has(ts, id) == \E i \in 1..Len(ts) : ts[i].id = id

TaskOf(ts, id) == ts[CHOOSE i \in 1..Len(ts) : ts[i].id = id]

\* The edges of the task state machine.
Edges ==
    {<<"pending", "processing">>, <<"processing", "paused">>, <<"paused", "processing">>,
     <<"processing", "completed">>, <<"processing", "failed">>}
    \cup {<<s, "cancelled">> : s \in TaskStatus \ Terminal}

\* A step in which the task keeps its place in the store.
Kept(id) == Has(tasks, id) /\ Has(tasks', id)

\* C1: every change of a task's status follows an edge of the state machine.
C1_StatusFollowsEdges ==
    [][\A id \in TaskIds :
          Kept(id) /\ TaskOf(tasks', id).status # TaskOf(tasks, id).status
          => <<TaskOf(tasks, id).status, TaskOf(tasks', id).status>> \in Edges]_vars

\* C2: once a task is completed, failed or cancelled, no operation changes its
\* status, stage, progress or error.
C2_TerminalIsFinal ==
    [][\A id \in TaskIds :
          Kept(id) /\ TaskOf(tasks, id).status \in Terminal
          => /\ TaskOf(tasks', id).status = TaskOf(tasks, id).status
             /\ TaskOf(tasks', id).stage = TaskOf(tasks, id).stage
             /\ TaskOf(tasks', id).progress = TaskOf(tasks, id).progress
             /\ TaskOf(tasks', id).error = TaskOf(tasks, id).error]_vars

\* C3: at most maxConcurrentTasks tasks are processing.
C3_ConcurrencyBound ==
    Cardinality({i \in 1..Len(tasks) : tasks[i].status = "processing"}) <= maxConcurrentTasks

PendingIn(reg) == {i \in 1..Len(reg) : reg[i].status = "pending"}

\* The pending tasks are the queued ones, in submission order, and none waits
\* while a slot is free.
QueueIsFifo ==
    /\ Cardinality(Running(registry)) <= maxConcurrentTasks
    /\ Len(queue) = Cardinality(PendingIn(registry))
    /\ \A k \in 1..Len(queue) :
          \E i \in PendingIn(registry) :
             /\ registry[i].id = queue[k]
             /\ Cardinality({j \in PendingIn(registry) : j < i}) = k - 1
    /\ queue # <<>> => Cardinality(Running(registry)) = maxConcurrentTasks
    /\ (\A i \in 1..Len(registry) : registry[i].status \in {"pending", "processing"})
          => \A i \in 1..Len(registry) :
                registry[i].status = IF i <= maxConcurrentTasks THEN "processing" ELSE "pending"

\* A step admits a pending task only if no task submitted before it stays pending.
AdmitsEarliest ==
    \A i, j \in 1..Len(registry) :
        /\ i < j
        /\ registry[i].status = "pending"
        /\ registry[j].status = "pending"
        /\ registry'[j].status = "processing"
        => registry'[i].status # "pending"

\* C4: tasks beyond the first maxConcurrentTasks wait in submission order, and the
\* earliest-submitted pending task is the one admitted when a slot frees.
C4_FifoAdmission == []QueueIsFifo /\ [][AdmitsEarliest]_vars

\* Five tasks were submitted, the first finished and the fourth took its slot.
C4_Witness ==
    /\ Len(registry) = 5
    /\ registry[1].status = "completed"
    /\ \A i \in 2..4 : registry[i].status = "processing"
    /\ registry[5].status = "pending"

\* C5: a cancel request for a task that has not finished is handed to the socket.
C5_CancelIsSent ==
    [][/\ \A id \in TaskIds :
             /\ Has(tasks, id)
             /\ TaskOf(tasks, id).status \notin Terminal
             /\ cancelTask(id)
             => \E i \in 1..Len(sent') :
                   sent'[i].event = "cancel_task" /\ sent'[i].data.task_id = id
       /\ (\E i \in 1..Len(tasks) : tasks[i].status \notin Terminal) /\ cancelQueue
             => \E i \in 1..Len(sent') : sent'[i].event = "cancel_queue"]_vars

\* C6: a task_cancelled event for a task that is already cancelled leaves the
\* task list as it was and calls no subscriber.
C6_CancelIsIdempotent ==
    [][\A id \in TaskIds :
          /\ Has(tasks, id)
          /\ TaskOf(tasks, id).status = "cancelled"
          /\ OnTaskCancelled(id)
          => tasks' = tasks /\ emitted' = <<>>]_vars

\* C7: a cancelled task has no error.
C7_CancelledHasNoError ==
    \A i \in 1..Len(tasks) : tasks[i].status = "cancelled" => tasks[i].error = NoError

\* The invocations a dispatch of `event` makes, one per subscriber.
Delivered(event) == {i \in 1..Len(emitted) : emitted[i].event = event}

\* C8: when a task becomes failed its status is failed, its error is a failure
\* message, its stage is `failed`, and every subscriber of `failed` is called with
\* the task id and that error.
C8_FailedIsRecorded ==
    [][\A id \in TaskIds :
          Kept(id) /\ TaskOf(tasks', id).status = "failed"
                   /\ TaskOf(tasks, id).status # "failed"
          => /\ TaskOf(tasks', id).error \in Errors
             /\ TaskOf(tasks', id).stage = "failed"
             /\ \A cb \in Range(listeners["failed"]) :
                   \E i \in Delivered("failed")' :
                      /\ emitted'[i].cb = cb
                      /\ emitted'[i].data =
                            [taskId |-> id, error |-> TaskOf(tasks', id).error]]_vars

\* C9: a transition to cancelled or failed leaves the task's subtitles as they
\* were, and a transition to cancelled writes no error and notifies no failure.
C9_SubtitlesSurvive ==
    [][\A id \in TaskIds :
          Kept(id) /\ TaskOf(tasks', id).status \in {"cancelled", "failed"}
                   /\ TaskOf(tasks', id).status # TaskOf(tasks, id).status
          => /\ TaskOf(tasks', id).subtitles = TaskOf(tasks, id).subtitles
             /\ TaskOf(tasks', id).status = "cancelled"
                   => /\ TaskOf(tasks', id).error = TaskOf(tasks, id).error
                      /\ Delivered("failed")' = {}
                      /\ Delivered("synthesis_failed")' = {}]_vars

\* A task was cancelled after one subtitle had arrived for it, and still has it.
C9_Witness ==
    \E i \in 1..Len(tasks) :
        /\ tasks[i].status = "cancelled"
        /\ Len(tasks[i].subtitles) = 1
        /\ tasks[i].stage = "idle"

SortedByStart(s) == \A i, j \in 1..Len(s) : i < j => s[i].startTime <= s[j].startTime

UniqueIds(s) == \A i, j \in 1..Len(s) : i # j => s[i].id # s[j].id

\* C10: the subtitles of a completed task are sorted by startTime and hold each id once.
C10_CompletedSubtitlesOrdered ==
    \A i \in 1..Len(tasks) :
        tasks[i].status = "completed"
        => SortedByStart(tasks[i].subtitles) /\ UniqueIds(tasks[i].subtitles)

----------------------------------------------------------------------------
\* The stream of subtitle_added events of one task.  The task starts with a list
\* that earlier subtitle_added events have left.
MergedSoFar ==
    { <<>>,
      <<Entry(5, 10, "e")>>,
      <<Entry(5, 10, "e"), Entry(6, 30, "f")>> }

StreamSubtitles ==
    RawSubtitles \cup [id : 1..3, startTime : {10, 20, 30}, endTime : {35}, text : {"s"}]

SubtitleInit ==
    /\ now = 0
    /\ \E s \in MergedSoFar : tasks = <<[NewTask(1) EXCEPT !.subtitles = s]>>
    /\ socket = "connected"
    /\ listeners = [e \in EventNames |-> <<>>]
    /\ emitted = <<>>
    /\ sent = <<>>
    /\ warnings = <<>>
    /\ received = 0
    /\ BusIdle
    /\ srt = NoExport
    /\ registry = <<>>
    /\ ExecutorIdle
    /\ ShellIdle
    /\ queue = <<>>

SubtitleNext ==
    \/ \E id \in TaskIds, raw \in StreamSubtitles : OnSubtitleAdded(id, raw)

SubtitleSpec == SubtitleInit /\ [][SubtitleNext]_vars

\* C11: whatever subtitle_added events a task has received, in whatever order and
\* however often repeated, its subtitles are sorted by startTime and no id occurs
\* twice.
C11_SubtitlesMergedInOrder ==
    \A i \in 1..Len(tasks) :
        SortedByStart(tasks[i].subtitles) /\ UniqueIds(tasks[i].subtitles)

\* An arrival was placed between two entries that were already there.
C11_Witness ==
    /\ received > 0
    /\ \E i \in 1..Len(tasks) :
        LET s == tasks[i].subtitles
        IN Len(s) >= 3 /\ s[1].id = 5 /\ s[Len(s)].id = 6 /\ s[1].startTime < s[2].startTime

----------------------------------------------------------------------------
\* The bus: the connection, the subscriptions to 'progress', and the task_progress
\* events the server publishes, each handled by every socket it reaches.
BusInit ==
    /\ now = 0
    /\ tasks = <<NewTask(1)>>
    /\ socket = "null"
    /\ listeners = [e \in EventNames |-> <<>>]
    /\ emitted = <<>>
    /\ sent = <<>>
    /\ warnings = <<>>
    /\ received = 0
    /\ BusIdle
    /\ srt = NoExport
    /\ registry = <<>>
    /\ ExecutorIdle
    /\ ShellIdle
    /\ queue = <<>>

BusUpdates == [taskId : {1}, stage : {"transcribing"}, progress : {30, 60}, detail : {"d"}]

BusNext ==
    \/ connect
    \/ connectAgain
    \/ disconnect
    \/ OnConnect
    \/ OnDisconnect
    \/ \E i \in 1..MaxOrphans : OnOrphanConnect(i)
    \/ \E cb \in BusCallbacks : on("progress", cb)
    \/ \E cb \in BusCallbacks : off("progress", cb)
    \/ \E u \in BusUpdates : Publish("task_progress", u)
    \/ DeliverTaskProgress
    \/ \E i \in 1..MaxOrphans : OrphanDeliverTaskProgress(i)

BusSpec == BusInit /\ [][BusNext]_vars

InPublishedOrder(s) == \A i, j \in 1..Len(s) : i < j => s[i] <= s[j]

AtMostOnce(s) == \A i, j \in 1..Len(s) : i # j => s[i] # s[j]

C13_DeliveredAtMostOnce ==
    /\ AtMostOnce(history.applied)
    /\ \A cb \in BusCallbacks : AtMostOnce(history.delivered[cb])

\* Every invocation goes to a callback that is subscribed to the event at that moment.
OnlySubscribersInvoked ==
    \A k \in 1..Len(emitted') : emitted'[k].cb \in Range(listeners[emitted'[k].event])

\* No callback was given an event that was published while this.socket was not
\* connected.
NothingFromWhileDisconnected ==
    \A cb \in BusCallbacks : \A k \in 1..Len(history.delivered[cb]) :
        history.published[history.delivered[cb][k]].socket = "connected"

\* C14: there is no replay: a callback is never invoked once it has been
\* unsubscribed, and an event published while the client is disconnected never
\* reaches a subscriber.
C14_NoReplay == []NothingFromWhileDisconnected /\ [][OnlySubscribersInvoked]_vars

----------------------------------------------------------------------------
\* The store with two tasks in it and the socket connected: tasks are started and
\* paused, server events arrive and cancel commands are sent.
FrameInit ==
    /\ now = 0
    /\ tasks = <<NewTask(1), NewTask(2)>>
    /\ socket = "connected"
    /\ listeners = [e \in EventNames |-> <<>>]
    /\ emitted = <<>>
    /\ sent = <<>>
    /\ warnings = <<>>
    /\ received = 0
    /\ BusIdle
    /\ srt = NoExport
    /\ registry = <<>>
    /\ ExecutorIdle
    /\ ShellIdle
    /\ queue = <<>>

FrameNext ==
    \/ \E id \in TaskIds : handleToggleStatus(id)
    \/ \E u \in ProgressUpdates : OnTaskProgress(u)
    \/ \E id \in TaskIds, raw \in RawSubtitles : OnSubtitleAdded(id, raw)
    \/ \E id \in TaskIds, subs \in CompletedSubtitles : OnTaskCompleted(id, subs)
    \/ \E id \in TaskIds, e \in Errors : OnTaskFailed(id, e)
    \/ \E u \in SynthesisUpdates : OnSynthesisProgress(u)
    \/ \E id \in TaskIds : OnSynthesisCompleted(id)
    \/ \E id \in TaskIds, e \in Errors : OnSynthesisFailed(id, e)
    \/ \E id \in TaskIds : OnTaskCancelled(id)
    \/ \E id \in TaskIds : cancelTask(id)

FrameSpec == FrameInit /\ [][FrameNext]_vars

\* The step is a server event, a command or a toggle addressed to task x.
AddressedTo(x) ==
    \/ \E u \in ProgressUpdates : u.taskId = x /\ OnTaskProgress(u)
    \/ \E raw \in RawSubtitles : OnSubtitleAdded(x, raw)
    \/ \E subs \in CompletedSubtitles : OnTaskCompleted(x, subs)
    \/ \E e \in Errors : OnTaskFailed(x, e)
    \/ \E u \in SynthesisUpdates : u.taskId = x /\ OnSynthesisProgress(u)
    \/ OnSynthesisCompleted(x)
    \/ \E e \in Errors : OnSynthesisFailed(x, e)
    \/ OnTaskCancelled(x)
    \/ cancelTask(x)
    \/ handleToggleStatus(x)

\* Every other task is still in the store, in its place, exactly as it was.
SiblingsUntouched(x) ==
    /\ Len(tasks') = Len(tasks)
    /\ \A i \in 1..Len(tasks) : tasks[i].id # x => tasks'[i] = tasks[i]

\* C15: an event or command addressed to task x changes no field of any task
\* whose id differs from x.
C15_SiblingsUntouched ==
    [][\A x \in TaskIds : SiblingsUntouched(x) \/ ~AddressedTo(x)]_vars

\* Two tasks are in the store and an event has changed one of them.
C15_Witness ==
    /\ Len(tasks) = 2
    /\ received > 0
    /\ \E i, j \in 1..2 : tasks[i] # NewTask(tasks[i].id) /\ tasks[j] = NewTask(tasks[j].id)

\* The id and the provenance of a task.
Provenance(task) == <<task.id, task.filePath, task.fileName, task.fileSize>>

\* C16: a task's id, filePath, fileName and fileSize are fixed at creation: no
\* store operation and no event handler changes them for a task in the store.
C16_ProvenanceFixed ==
    [][\A i \in 1..Len(tasks) :
          i <= Len(tasks') /\ Provenance(tasks'[i]) = Provenance(tasks[i])]_vars

\* A task was added after another one had been completed by an event.
C16_Witness ==
    /\ Len(tasks) = 2
    /\ tasks[1].status = "completed"
    /\ tasks[2].createdAt >= tasks[1].completedAt
    /\ tasks[2].status = "processing"

ProgressInRange == \A i \in 1..Len(tasks) : tasks[i].progress \in 0..100

\* Where a step leaves a task's stage as it was, it does not lower its progress.
ProgressKept ==
    \A i \in 1..Len(tasks) :
        (i <= Len(tasks') /\ tasks'[i].stage = tasks[i].stage)
            => tasks'[i].progress >= tasks[i].progress

\* C17: every task's progress is within 0..100 in every reachable state, and
\* between two progress updates that carry the same stage the stored progress
\* never decreases, in whatever order task_progress and synthesis_progress arrive.
C17_ProgressMonotone == []ProgressInRange /\ [][ProgressKept]_vars

\* The pause / start button was pressed on task id: a processing task is now paused,
\* a paused task is processing again, and stage and progress are as they were.
TogglePausesAndResumes(id) ==
    LET before == TaskOf(tasks, id)
        after == TaskOf(tasks', id)
    IN /\ before.status = "processing" => after.status = "paused"
       /\ before.status = "paused" => after.status = "processing"
       /\ before.status \in {"processing", "paused"} =>
              after.stage = before.stage /\ after.progress = before.progress

\* C18: pausing a processing task puts it in status paused, and resuming it returns
\* it to processing at the stage and position it had.
C18_PauseResume ==
    [][\A id \in QueueIds : handleToggleStatus(id) => TogglePausesAndResumes(id)]_vars

----------------------------------------------------------------------------
\* StageExecutor: a stage makes one external call per segment and retries a call
\* that failed with a transient provider error.
frontendVars ==
    <<tasks, now, socket, listeners, emitted, sent, warnings, received, busVars, srt, shellVars>>

\* The wait before retry number n + 1: exponential, starting at initialBackoff.
RECURSIVE Backoff(_)
Backoff(n) == IF n = 0 THEN initialBackoff ELSE 2 * Backoff(n - 1)

\* A retry policy that allows one retry too many.
ShouldRetryOnceMore(error, retries) == error = "transient" /\ retries <= maxRetries

\* Only a transient error is retried, and only while retries remain.
ShouldRetry(error, retries) == error = "transient" /\ retries < maxRetries

\* The stage starts: the call for the first segment is made.
StartStage ==
    /\ executor.phase = "idle"
    /\ executor' = [executor EXCEPT !.phase = "calling", !.segment = 1]
    /\ UNCHANGED <<frontendVars, registry, queue>>

\* The external call returns a result: the segment is done; the call for the next
\* segment is made, or the stage is completed.
CallSucceeds ==
    /\ executor.phase = "calling"
    /\ executor' = [executor EXCEPT
                       !.results = Append(@, [segment |-> executor.segment,
                                              retries |-> executor.retries]),
                       !.phase = IF executor.segment = MaxSegments THEN "completed" ELSE "calling",
                       !.segment = IF executor.segment = MaxSegments THEN @ ELSE @ + 1,
                       !.retries = 0,
                       !.backoffs = <<>>,
                       !.lastError = "none"]
    /\ UNCHANGED <<frontendVars, registry, queue>>

\* The external call fails with ProviderError.transient or ProviderError.fatal: the
\* executor waits to retry, or the error propagates and the task fails.
CallFails(error) ==
    /\ executor.phase = "calling"
    /\ executor' = IF ShouldRetry(error, executor.retries)
                   THEN [executor EXCEPT
                            !.phase = "backoff",
                            !.backoffs = Append(@, Backoff(executor.retries)),
                            !.lastError = error]
                   ELSE [executor EXCEPT !.phase = "failed", !.lastError = error]
    /\ UNCHANGED <<frontendVars, registry, queue>>

\* The wait is over: the call is made again.
Retry ==
    /\ executor.phase = "backoff"
    /\ executor' = [executor EXCEPT !.phase = "calling", !.retries = @ + 1]
    /\ UNCHANGED <<frontendVars, registry, queue>>

ProviderErrors == {"transient", "fatal"}

ExecNext ==
    \/ StartStage
    \/ CallSucceeds
    \/ \E error \in ProviderErrors : CallFails(error)
    \/ Retry

ExecSpec == Init /\ [][ExecNext]_vars

StrictlyIncreasing(s) == \A i, j \in 1..Len(s) : i < j => s[i] < s[j]

\* At most maxRetries retries per call, each wait longer than the one before; a
\* failed stage has made no call after its last error.
RetriesBounded ==
    /\ executor.retries <= maxRetries
    /\ Len(executor.backoffs) <= maxRetries
    /\ StrictlyIncreasing(executor.backoffs)
    /\ \A k \in 1..Len(executor.results) : executor.results[k].retries <= maxRetries

\* A call is made again only after a transient error; a call that succeeds, also
\* after two transient failures, gives the segment's result with the retries it
\* took and does not fail the task; a fatal error, or a transient one after two
\* retries, fails the task; a failed stage does nothing more.
RetryStep ==
    /\ executor'.retries > executor.retries =>
          executor.lastError = "transient" /\ executor.phase = "backoff"
    /\ Len(executor'.results) > Len(executor.results) =>
          /\ executor'.results[Len(executor'.results)] =
                 [segment |-> executor.segment, retries |-> executor.retries]
          /\ executor'.phase # "failed"
    /\ (executor.phase = "calling" /\ executor'.lastError = "fatal") =>
          executor'.phase = "failed"
    /\ (executor.phase = "calling" /\ executor'.lastError = "transient"
            /\ executor.retries = maxRetries) => executor'.phase = "failed"
    /\ executor'.phase = "failed" => executor'.retries = executor.retries
    /\ executor.phase = "failed" => executor' = executor

----------------------------------------------------------------------------
\* SRT export.  A time of k milliseconds is the JavaScript number k/1000 (seconds):
\* the IEEE 754 double nearest to k/1000.

\* n.toString().padStart(width, '0')
RECURSIVE padStart(_, _)
padStart(str, width) == IF Len(str) >= width THEN str ELSE padStart("0" \o str, width)

RECURSIVE Pow2(_)
Pow2(n) == IF n = 0 THEN 1 ELSE 2 * Pow2(n - 1)

RECURSIVE Pow2Mod(_, _)
Pow2Mod(n, m) == IF n = 0 THEN 1 % m ELSE (2 * Pow2Mod(n - 1, m)) % m

\* The binary exponent of k/1000: 2^e <= k/1000 < 2^(e+1), for k > 0.
RECURSIVE ExponentFrom(_, _)
ExponentFrom(k, e) ==
    IF e >= 0
    THEN IF 1000 * Pow2(e + 1) <= k THEN ExponentFrom(k, e + 1) ELSE e
    ELSE IF k * Pow2(-e) < 1000 THEN ExponentFrom(k, e - 1) ELSE e

Exponent(k) == IF k >= 1000 THEN ExponentFrom(k, 0) ELSE ExponentFrom(k, -1)

\* The exponent of the doubles just below the integer r >= 1.
RECURSIVE ExponentBelowFrom(_, _)
ExponentBelowFrom(r, e) == IF Pow2(e + 1) < r THEN ExponentBelowFrom(r, e + 1) ELSE e

ExponentBelow(r) == IF r = 1 THEN -1 ELSE ExponentBelowFrom(r, 0)

\* Math.floor((seconds % 1) * 1000) in double arithmetic.  The double for k/1000
\* has the 53-bit significand k * 2^s / 1000 rounded to nearest (ties to even),
\* s = 52 - Exponent(k); rem is what the rounding drops.  seconds % 1 is exact.
\* When the double lies below k/1000, the product with 1000 lies below the whole
\* number r by rem / 2^s, and rounds up to r only if that is at most half the
\* spacing of the doubles below r; otherwise the floor is r - 1.
FloorFractionTimes1000(k) ==
    LET r == k % 1000
        e == Exponent(k)
        s == 52 - e
        rem2 == ((k % 2000) * Pow2Mod(s, 2000)) % 2000
        rem == rem2 % 1000
        odd == rem2 >= 1000
        roundedUp == rem > 500 \/ (rem = 500 /\ odd)
        t == ExponentBelow(r) - e - 1
    IN IF r = 0 \/ rem = 0 \/ roundedUp THEN r
       ELSE IF t >= 0 /\ rem <= Pow2(t) THEN r
       ELSE r - 1

\* formatSrtTime(seconds), for seconds = k/1000.  The floors of seconds / 3600,
\* (seconds % 3600) / 60 and seconds % 60 are those of the exact quotients.
formatSrtTime(k) ==
    LET h == k \div 3600000
        m == (k % 3600000) \div 60000
        sec == (k % 60000) \div 1000
        ms == FloorFractionTimes1000(k)
    IN padStart(ToString(h), 2) \o ":" \o padStart(ToString(m), 2) \o ":"
          \o padStart(ToString(sec), 2) \o "," \o padStart(ToString(ms), 3)

ExportModes == {"original", "translated", "bilingual", "bilingual_tagged"}

\* A `content` that takes the translation for the original line in the two
\* bilingual modes.
CueContentTranslationFirst(sub, mode) ==
    LET original == IF sub.originalText # "" THEN sub.originalText ELSE sub.text
        translation == sub.text
    IN CASE mode = "original" -> original
         [] mode = "translated" -> sub.text
         [] mode = "bilingual" ->
              IF original = translation /\ sub.originalText = ""
              THEN original ELSE translation \o "\n" \o original
         [] mode = "bilingual_tagged" ->
              IF original = translation /\ sub.originalText = ""
              THEN "[O]" \o original
              ELSE "[O]" \o translation \o "\n[T]" \o original

\* The `content` of one cue.  An originalText that is not set is "".
CueContent(sub, mode) ==
    LET original == IF sub.originalText # "" THEN sub.originalText ELSE sub.text
        translation == sub.text
    IN CASE mode = "original" -> original
         [] mode = "translated" -> sub.text
         [] mode = "bilingual" ->
              IF original = translation /\ sub.originalText = ""
              THEN original ELSE original \o "\n" \o translation
         [] mode = "bilingual_tagged" ->
              IF original = translation /\ sub.originalText = ""
              THEN "[O]" \o original
              ELSE "[O]" \o original \o "\n[T]" \o translation

\* The block of the cue at position index + 1.
CueBlock(sub, index, mode) ==
    ToString(index + 1) \o "\n" \o formatSrtTime(sub.startTime) \o " --> "
        \o formatSrtTime(sub.endTime) \o "\n" \o CueContent(sub, mode) \o "\n"

\* Array.prototype.join
RECURSIVE join(_, _)
join(strs, sep) ==
    IF strs = <<>> THEN ""
    ELSE IF Len(strs) = 1 THEN strs[1]
    ELSE strs[1] \o sep \o join(Tail(strs), sep)

\* generateSrtContent(subtitles, mode)
generateSrtContent(subtitles, mode) ==
    join([i \in 1..Len(subtitles) |-> CueBlock(subtitles[i], i - 1, mode)], "\n")

\* The export is made.
Export ==
    /\ ~srt.exported
    /\ srt' = [srt EXCEPT !.exported = TRUE,
                          !.content = generateSrtContent(srt.subtitles, srt.mode)]
    /\ UNCHANGED <<tasks, now, socket, listeners, emitted, sent, warnings, received, busVars,
                   backendVars, shellVars>>

\* Cues to export; times in milliseconds.
Cue(st, et, txt, orig) == [startTime |-> st, endTime |-> et, text |-> txt, originalText |-> orig]

SrtCues ==
    { Cue(500, 2000, "a", ""),
      Cue(3000, 4500, "b", "B"),
      Cue(1001, 2300, "c", ""),
      Cue(59999, 61001, "d", "d"),
      Cue(3600000, 3661001, "e", "E") }

RECURSIVE SeqsUpTo(_, _)
SeqsUpTo(S, n) ==
    IF n = 0 THEN {<<>>}
    ELSE SeqsUpTo(S, n - 1) \cup {Append(q, x) : q \in SeqsUpTo(S, n - 1), x \in S}

SrtInit ==
    /\ now = 0
    /\ tasks = <<>>
    /\ socket = "null"
    /\ listeners = [e \in EventNames |-> <<>>]
    /\ emitted = <<>>
    /\ sent = <<>>
    /\ warnings = <<>>
    /\ received = 0
    /\ BusIdle
    /\ \E subs \in SeqsUpTo(SrtCues, MaxCues), mode \in ExportModes :
          srt = [source |-> "", subtitles |-> subs, mode |-> mode, exported |-> FALSE,
                 content |-> ""]
    /\ registry = <<>>
    /\ queue = <<>>
    /\ ExecutorIdle
    /\ ShellIdle

SrtNext ==
    \/ Export

SrtSpec == SrtInit /\ [][SrtNext]_vars

\* HH:MM:SS,mmm for k milliseconds: the hours, the minutes (0-59), the seconds
\* (0-59) and the milliseconds (0-999) that k splits into, zero-padded.
SplitTime(k) ==
    padStart(ToString(k \div 3600000), 2) \o ":"
        \o padStart(ToString((k \div 60000) % 60), 2) \o ":"
        \o padStart(ToString((k \div 1000) % 60), 2) \o ","
        \o padStart(ToString(k % 1000), 3)

\* Cue number i of the export: its number, its timing line and its content.
NumberedCue(i) ==
    ToString(i) \o "\n" \o SplitTime(srt.subtitles[i].startTime) \o " --> "
        \o SplitTime(srt.subtitles[i].endTime) \o "\n"
        \o CueContent(srt.subtitles[i], srt.mode) \o "\n"

\* C20: generateSrtContent numbers the cues 1, 2, ... in the order of the input
\* list, and every timing line is `HH:MM:SS,mmm --> HH:MM:SS,mmm` with the entry's
\* start and end time split into zero-padded hours, minutes, seconds and whole
\* milliseconds.
C20_SrtNumberingAndTiming ==
    srt.exported =>
        srt.content = join([i \in 1..Len(srt.subtitles) |-> NumberedCue(i)], "\n")

----------------------------------------------------------------------------
\* The text of an entry before translation, and its translation.
OriginalOf(sub) == IF sub.originalText # "" THEN sub.originalText ELSE sub.text

\* The export with the cue contents given by Content(sub), numbers and timing lines
\* as generateSrtContent writes them.
ExportWith(Content(_)) ==
    join([i \in 1..Len(srt.subtitles) |->
            ToString(i) \o "\n" \o formatSrtTime(srt.subtitles[i].startTime) \o " --> "
                \o formatSrtTime(srt.subtitles[i].endTime) \o "\n"
                \o Content(srt.subtitles[i]) \o "\n"], "\n")

\* Every cue pairs the original with the translation; tagged, the lines carry [O]
\* and [T].
PairedContent(sub) ==
    CASE srt.mode = "original" -> OriginalOf(sub)
      [] srt.mode = "translated" -> sub.text
      [] srt.mode = "bilingual" -> OriginalOf(sub) \o "\n" \o sub.text
      [] srt.mode = "bilingual_tagged" -> "[O]" \o OriginalOf(sub) \o "\n[T]" \o sub.text

PairedWhereTranslated(sub) ==
    CASE srt.mode = "original" -> OriginalOf(sub)
      [] srt.mode = "translated" -> sub.text
      [] srt.mode = "bilingual" ->
           IF sub.originalText = "" THEN sub.text
           ELSE sub.originalText \o "\n" \o sub.text
      [] srt.mode = "bilingual_tagged" ->
           IF sub.originalText = "" THEN "[O]" \o sub.text
           ELSE "[O]" \o sub.originalText \o "\n[T]" \o sub.text

----------------------------------------------------------------------------
\* parseSubtitles: an SRT text is split into blocks at the empty lines; a block is
\* a cue number, a timing line and the lines of the text.

\* str.split('\n'), from position i on, cur being the line read so far.
RECURSIVE SplitLinesFrom(_, _, _)
SplitLinesFrom(str, i, cur) ==
    IF i > Len(str) THEN <<cur>>
    ELSE IF SubSeq(str, i, i) = "\n" THEN <<cur>> \o SplitLinesFrom(str, i + 1, "")
    ELSE SplitLinesFrom(str, i + 1, cur \o SubSeq(str, i, i))

SplitLines(str) == SplitLinesFrom(str, 1, "")

\* The blocks of non-empty lines, block being the one read so far.
RECURSIVE BlocksFrom(_, _)
BlocksFrom(lines, block) ==
    IF lines = <<>> THEN (IF block = <<>> THEN <<>> ELSE <<block>>)
    ELSE IF Head(lines) = ""
         THEN (IF block = <<>> THEN <<>> ELSE <<block>>) \o BlocksFrom(Tail(lines), <<>>)
         ELSE BlocksFrom(Tail(lines), Append(block, Head(lines)))

Blocks(str) == BlocksFrom(SplitLines(str), <<>>)

DigitValue(ch) ==
    CASE ch = "0" -> 0 [] ch = "1" -> 1 [] ch = "2" -> 2 [] ch = "3" -> 3 [] ch = "4" -> 4
      [] ch = "5" -> 5 [] ch = "6" -> 6 [] ch = "7" -> 7 [] ch = "8" -> 8 [] ch = "9" -> 9

RECURSIVE parseInt(_)
parseInt(str) ==
    IF str = "" THEN 0
    ELSE 10 * parseInt(SubSeq(str, 1, Len(str) - 1)) + DigitValue(SubSeq(str, Len(str), Len(str)))

\* The time HH:MM:SS,mmm stands for, in milliseconds.
parseSrtTime(str) ==
    parseInt(SubSeq(str, 1, 2)) * 3600000 + parseInt(SubSeq(str, 4, 5)) * 60000
        + parseInt(SubSeq(str, 7, 8)) * 1000 + parseInt(SubSeq(str, 10, 12))

\* The entry of one block: the cue number is dropped.
parseBlock(block) ==
    [startTime |-> parseSrtTime(SubSeq(block[2], 1, 12)),
     endTime |-> parseSrtTime(SubSeq(block[2], 18, 29)),
     text |-> join(SubSeq(block, 3, Len(block)), "\n"),
     originalText |-> ""]

parseSubtitles(str) == [i \in 1..Len(Blocks(str)) |-> parseBlock(Blocks(str)[i])]

\* An SRT text of the cues, numbered from `first`, with whole-millisecond timestamps.
SrtText(cues, first) ==
    join([i \in 1..Len(cues) |->
            ToString(first + i - 1) \o "\n" \o SplitTime(cues[i].startTime) \o " --> "
                \o SplitTime(cues[i].endTime) \o "\n" \o cues[i].text \o "\n"], "\n")

SrtTexts == {SrtText(cues, first) : cues \in SeqsUpTo(SrtCues, MaxCues), first \in {1, 7}}

\* An SRT file is read: its entries are the subtitles to export.
Import(text) ==
    /\ srt = NoExport
    /\ srt' = [srt EXCEPT !.source = text, !.subtitles = parseSubtitles(text)]
    /\ UNCHANGED <<tasks, now, socket, listeners, emitted, sent, warnings, received, busVars,
                   backendVars, shellVars>>

RoundTripNext ==
    \/ \E text \in SrtTexts : Import(text)
    \/ Export

RoundTripSpec == Init /\ [][RoundTripNext]_vars

\* The blocks of an SRT text without their cue numbers.
Unnumbered(str) == [i \in 1..Len(Blocks(str)) |-> Tail(Blocks(str)[i])]

\* C22: generateSrtContent(parseSubtitles(srt)) is srt again, up to the numbering
\* of the cues, for every SRT text with whole-millisecond timestamps.
C22_RoundTrip ==
    srt.exported => Unnumbered(srt.content) = Unnumbered(srt.source)

----------------------------------------------------------------------------
\* The App component and the connection.

\* App's effect (dependencies []): wsService.connect(), then wsService.on('connection',
\* listener).  The listener closes over the tasks array of the render the effect
\* belongs to.  connect() returns at once when the socket is connected and opens
\* a socket otherwise, leaving one that was still connecting alive.
Mount ==
    /\ ~mounted.listening
    /\ socket = "connecting" => Len(orphans) < MaxOrphans
    /\ socket' = IF socket = "connected" THEN "connected" ELSE "connecting"
    /\ orphans' = IF socket = "connecting"
                  THEN Append(orphans, [state |-> "connecting", inbox |-> <<>>])
                  ELSE orphans
    /\ mounted' = [listening |-> TRUE, tasks |-> tasks]
    /\ emitted' = <<>>
    /\ sent' = <<>>
    /\ warnings' = <<>>
    /\ UNCHANGED <<tasks, now, listeners, received, inbox, history, srt, backendVars, selectedTaskId,
                   electronVars>>

\* The effect's cleanup: unsubscribe().  The socket stays as it is.
Unmount ==
    /\ mounted.listening
    /\ mounted' = NotMounted
    /\ emitted' = <<>>
    /\ sent' = <<>>
    /\ warnings' = <<>>
    /\ UNCHANGED <<tasks, now, socket, listeners, received, busVars, srt, backendVars, selectedTaskId,
                   electronVars>>

\* The App, the store and a connection that drops and comes back.
ReconnectNext ==
    \/ Mount
    \/ Unmount
    \/ \E id \in TaskIds : addTask(id)
    \/ \E id \in TaskIds : handleToggleStatus(id)
    \/ OnConnect
    \/ OnDisconnect
    \/ \E i \in 1..MaxOrphans : OnOrphanConnect(i)

ReconnectSpec == Init /\ [][ReconnectNext]_vars

\* C23: every time the connection is established or re-established while the App
\* is subscribed, the join_task messages sent are those of the tasks that are
\* processing in the store at that moment.
C23_RejoinsFromStore ==
    [][(mounted.listening /\ socket # "connected" /\ socket' = "connected")
            => sent' = joinTasks(tasks')]_vars

----------------------------------------------------------------------------
\* C24: in every state of the store, a task whose status is completed has
\* progress 100 and stage 'completed'.
C24_CompletedIsWhole ==
    \A i \in 1..Len(tasks) :
        tasks[i].status = "completed"
            => tasks[i].progress = 100 /\ tasks[i].stage = "completed"

----------------------------------------------------------------------------
\* The Electron main process and the backend it spawns.

Platforms == {"win32", "linux", "darwin"}

\* The rest of the program, which the main process does not touch.
rendererVars ==
    <<tasks, now, socket, listeners, emitted, sent, warnings, received, busVars, srt, backendVars,
      selectedTaskId, mounted>>

\* pythonProcess.kill(signal): the signal is sent and the killed flag set when the
\* process has not exited; otherwise nothing is sent.
Kill(c, signal) ==
    IF c.state = "running"
    THEN [c EXCEPT !.killed = TRUE, !.signals = Append(@, signal)]
    ELSE c

\* exec('taskkill /pid ... /T /F'), on win32 only.
Taskkill(c) ==
    IF platform = "win32" THEN [c EXCEPT !.signals = Append(@, "taskkill")] ELSE c

\* killPythonProcess(): when pythonProcess is set, taskkill on win32, SIGTERM, a
\* timeout of 2000 ms, and pythonProcess = null.
killPythonProcess ==
    /\ child' = IF pythonProcess = "null" THEN child ELSE Kill(Taskkill(child), "SIGTERM")
    /\ timers' = IF pythonProcess = "null" THEN timers ELSE timers + 1
    /\ pythonProcess' = "null"

\* app.whenReady().then(...): startPythonBackend() and createWindow().
WhenReady ==
    /\ app = "starting"
    /\ app' = "ready"
    /\ pythonProcess' = "child"
    /\ child' = [state |-> "running", killed |-> FALSE, signals |-> <<>>]
    /\ mainWindow' = "shown"
    /\ UNCHANGED <<rendererVars, platform, isQuitting, timers>>

\* ipcMain.on('window-minimize')
OnWindowMinimize ==
    /\ app = "ready"
    /\ mainWindow \notin {"none", "minimized"}
    /\ mainWindow' = "minimized"
    /\ UNCHANGED <<rendererVars, platform, app, pythonProcess, isQuitting, child, timers>>

\* ipcMain.on('window-maximize'): unmaximize when maximized, maximize otherwise.
OnWindowMaximize ==
    /\ app = "ready"
    /\ mainWindow # "none"
    /\ mainWindow' = IF mainWindow = "maximized" THEN "shown" ELSE "maximized"
    /\ UNCHANGED <<rendererVars, platform, app, pythonProcess, isQuitting, child, timers>>

\* ipcMain.on('window-close') closes the window, the last one there is, and
\* app.on('window-all-closed') runs.
OnWindowAllClosed ==
    /\ app = "ready"
    /\ mainWindow # "none"
    /\ mainWindow' = "none"
    /\ IF platform # "darwin"
       THEN /\ isQuitting' = TRUE
            /\ killPythonProcess
            /\ app' = "quitting"
       ELSE UNCHANGED <<isQuitting, child, timers, pythonProcess, app>>
    /\ UNCHANGED <<rendererVars, platform>>

\* app.on('activate'): the window is created again when there is none.
OnActivate ==
    /\ app = "ready"
    /\ mainWindow = "none"
    /\ mainWindow' = "shown"
    /\ UNCHANGED <<rendererVars, platform, app, pythonProcess, isQuitting, child, timers>>

\* The user quits the application from its menu or the dock.
Quit ==
    /\ app = "ready"
    /\ app' = "quitting"
    /\ UNCHANGED <<rendererVars, platform, mainWindow, pythonProcess, isQuitting, child, timers>>

\* app.on('before-quit'), emitted once app.quit() has been asked for.
OnBeforeQuit ==
    /\ app = "quitting"
    /\ app' = "exiting"
    /\ isQuitting' = TRUE
    /\ killPythonProcess
    /\ UNCHANGED <<rendererVars, platform, mainWindow>>

\* The main process ends: its windows close and its pending timeouts never run.
AppExits ==
    /\ app = "exiting"
    /\ app' = "exited"
    /\ mainWindow' = "none"
    /\ timers' = 0
    /\ UNCHANGED <<rendererVars, platform, pythonProcess, isQuitting, child>>

\* The callback of setTimeout(..., 2000): SIGKILL when pythonProcess is set and
\* its killed flag is not.
OnTimeout ==
    /\ timers > 0
    /\ app # "exited"
    /\ timers' = timers - 1
    /\ child' = IF pythonProcess # "null" /\ ~child.killed THEN Kill(child, "SIGKILL") ELSE child
    /\ UNCHANGED <<rendererVars, platform, app, mainWindow, pythonProcess, isQuitting>>

\* The backend process ends: by itself, or because of a signal or of taskkill.
ChildExits ==
    /\ child.state = "running"
    /\ child' = [child EXCEPT !.state = "exited"]
    /\ UNCHANGED <<rendererVars, platform, app, mainWindow, pythonProcess, isQuitting, timers>>

ElectronInit ==
    /\ tasks = <<>>
    /\ now = 0
    /\ socket = "null"
    /\ listeners = [e \in EventNames |-> <<>>]
    /\ emitted = <<>>
    /\ sent = <<>>
    /\ warnings = <<>>
    /\ received = 0
    /\ BusIdle
    /\ srt = NoExport
    /\ registry = <<>>
    /\ ExecutorIdle
    /\ queue = <<>>
    /\ selectedTaskId = NoSelection
    /\ mounted = NotMounted
    /\ platform \in Platforms
    /\ ElectronIdle

ElectronNext ==
    \/ WhenReady
    \/ OnWindowMinimize
    \/ OnWindowMaximize
    \/ OnWindowAllClosed
    \/ OnActivate
    \/ Quit
    \/ OnBeforeQuit
    \/ AppExits
    \/ OnTimeout
    \/ ChildExits

ElectronSpec == ElectronInit /\ [][ElectronNext]_vars

\* The timeout of killPythonProcess runs while the process that was sent SIGTERM
\* is still running.
TimeoutFindsItRunning ==
    /\ timers' = timers - 1
    /\ app' = app
    /\ child.state = "running"
    /\ "SIGTERM" \in Range(child.signals)

\* killPythonProcess is called for a process it has already signalled.
CalledAgain ==
    /\ app = "quitting"
    /\ app' = "exiting"
    /\ "SIGTERM" \in Range(child.signals)

\* C25: a backend process that was sent SIGTERM and is still running when the
\* 2 second timeout runs is sent SIGKILL, and a second killPythonProcess call
\* sends nothing more to a process the first call has signalled.
C25_ShutdownEscalates ==
    [][/\ TimeoutFindsItRunning => "SIGKILL" \in Range(child'.signals)
       /\ CalledAgain => child'.signals = child.signals]_vars

----------------------------------------------------------------------------
\* The store: the task list and the selection.

\* The variables the store's task actions leave alone.
storeRest ==
    <<now, socket, listeners, received, busVars, srt, backendVars, mounted, electronVars>>

\* updateTask(id, updates), called by a component.
UpdateTask(id, updates) ==
    /\ InStore(id)
    /\ tasks' = updateTask(id, updates)
    /\ emitted' = <<>>
    /\ sent' = <<>>
    /\ warnings' = <<>>
    /\ UNCHANGED <<storeRest, selectedTaskId>>

\* removeTask(id): the task is filtered out, and the selection reset when it was
\* this task.
removeTask(id) ==
    /\ InStore(id)
    /\ tasks' = SelectSeq(tasks, LAMBDA task : task.id # id)
    /\ selectedTaskId' = IF selectedTaskId = id THEN NoSelection ELSE selectedTaskId
    /\ emitted' = <<>>
    /\ sent' = <<>>
    /\ warnings' = <<>>
    /\ UNCHANGED storeRest

\* clearCompleted(): the completed, failed and cancelled tasks are filtered out.
clearCompleted ==
    /\ tasks' = SelectSeq(tasks, LAMBDA task : task.status \notin Terminal)
    /\ emitted' = <<>>
    /\ sent' = <<>>
    /\ warnings' = <<>>
    /\ UNCHANGED <<storeRest, selectedTaskId>>

\* clearAll()
clearAll ==
    /\ tasks' = <<>>
    /\ selectedTaskId' = NoSelection
    /\ emitted' = <<>>
    /\ sent' = <<>>
    /\ warnings' = <<>>
    /\ UNCHANGED storeRest

\* setSelectedTask(id), with null or the id of a task that is in the store.
setSelectedTask(id) ==
    /\ id = NoSelection \/ InStore(id)
    /\ selectedTaskId' = id
    /\ emitted' = <<>>
    /\ sent' = <<>>
    /\ warnings' = <<>>
    /\ UNCHANGED <<storeRest, tasks>>

StoreNext ==
    \/ \E id \in TaskIds : addTask(id)
    \/ \E id \in TaskIds, st \in TaskStatus : UpdateTask(id, [status |-> st])
    \/ \E id \in TaskIds : removeTask(id)
    \/ clearCompleted
    \/ clearAll
    \/ \E id \in TaskIds \cup {NoSelection} : setSelectedTask(id)

StoreSpec == Init /\ [][StoreNext]_vars

\* C26: selectedTaskId is null or the id of a task that is in the store.
C26_SelectionInStore ==
    selectedTaskId = NoSelection \/ InStore(selectedTaskId)

----------------------------------------------------------------------------
\* Listeners that throw.

DispatchCallbacks == {"cbThrows", "cb1"}
DispatchEvents == {"progress", "completed"}

\* A connection, the store, subscriptions of callbacks some of which throw, and
\* the task_progress and task_completed events.
DispatchNext ==
    \/ \E id \in TaskIds : addTask(id)
    \/ connect
    \/ OnConnect
    \/ \E e \in DispatchEvents, cb \in DispatchCallbacks : on(e, cb)
    \/ \E u \in ProgressUpdates : OnTaskProgress(u)
    \/ \E id \in TaskIds, subs \in CompletedSubtitles : OnTaskCompleted(id, subs)

DispatchSpec == Init /\ [][DispatchNext]_vars

\* Every listener registered for the event is invoked exactly once in this step.
InvokedOnce(event) ==
    \A cb \in Range(listeners[event]) :
        Cardinality({k \in 1..Len(emitted') :
                        emitted'[k].cb = cb /\ emitted'[k].event = event}) = 1

\* The task the event is about, when it is in the store, has the event's values.
Stored(id, updates) ==
    InStore(id) => \A f \in DOMAIN updates : tasks'[IndexOf(id)][f] = updates[f]

\* C27: when an event is dispatched, every listener registered for it is invoked
\* exactly once, whether or not another listener throws, and the store holds the
\* update of the event.
C27_ThrowingListenerIsContained ==
    [][/\ \A u \in ProgressUpdates :
            OnTaskProgress(u)
                => /\ InvokedOnce("progress")
                   /\ Stored(u.taskId, [progress |-> u.progress, stage |-> u.stage])
       /\ \A id \in TaskIds, subs \in CompletedSubtitles :
            OnTaskCompleted(id, subs)
                => /\ InvokedOnce("completed")
                   /\ Stored(id, [status |-> "completed", progress |-> 100,
                                  subtitles |-> subs])]_vars

\* A task_completed event has been dispatched to a listener that threw and then
\* to another one, and the task is completed in the store.
C27_Witness ==
    \E k \in 1..Len(emitted) :
        /\ k < Len(emitted)
        /\ emitted[k].error
        /\ ~emitted[k + 1].error
        /\ emitted[k].event = "completed"
        /\ InStore(emitted[k].data.id)
        /\ getTaskById(emitted[k].data.id).status = "completed"

====
